---- MODULE Spec2Model ----
(***************************************************************************)
(* Model of lib/sqlalchemy_sandbox.py: one Student table in an in-memory   *)
(* SQLite database, one ORM session, and the linear script that inserts,   *)
(* reads, updates and deletes rows through that session.                   *)
(*                                                                         *)
(* Values that Python leaves optional (an attribute that may be None, the  *)
(* result of Query.first()) are encoded as sequences: None is <<>> and a   *)
(* present value v is <<v>>.  Strings that the script matches or sorts are *)
(* sequences of one-character strings.                                     *)
(***************************************************************************)
EXTENDS Integers, Sequences, FiniteSets, TLC

VARIABLES pc, store, committed, pending, loaded, dirty, deleted,
          albert_einstein, alan_turing, iter, out, enrolled_default, tie,
          inserted, usedIds

vars == <<pc, store, committed, pending, loaded, dirty, deleted,
          albert_einstein, alan_turing, iter, out, enrolled_default, tie,
          inserted, usedIds>>

\* ------------------------------------------------------------------------
\* Bounds
\* ------------------------------------------------------------------------

\* datetime.now() at class-definition time is one of the instants 0..MaxNow.
MaxNow == 2

\* ------------------------------------------------------------------------
\* Values
\* ------------------------------------------------------------------------

None == <<>>

Some(v) == <<v>>

EinsteinName == <<"A","l","b","e","r","t"," ","E","i","n","s","t","e","i","n">>

TuringName == <<"A","l","a","n"," ","T","u","r","i","n","g">>

EinsteinEmail == "albert.einstein@zurich.edu"

TuringEmail == "alan.turing@sherborne.edu"

EinsteinGrade == 6

TuringGrade == 11

EinsteinBirthday == <<1879, 3, 14>>

TuringBirthday == <<1912, 6, 23>>

\* Student(name=..., email=..., grade=..., birthday=...): a transient object;
\* id and enrolled_date are not given and stay None on the object.
NewStudent(n, e, g, b) ==
    [id |-> None, name |-> n, email |-> e, grade |-> g, birthday |-> b,
     enrolled_date |-> None]

AlbertEinsteinObj == NewStudent(EinsteinName, EinsteinEmail, EinsteinGrade, EinsteinBirthday)

AlanTuringObj == NewStudent(TuringName, TuringEmail, TuringGrade, TuringBirthday)

\* Student.__repr__
Repr(o) == <<"Student", o.id, o.name, "Grade", o.grade>>

\* ------------------------------------------------------------------------
\* Characters: ASCII order and ASCII case folding
\* ------------------------------------------------------------------------

Ascii == <<" ", "%", "@", "A","B","C","D","E","F","G","H","I","J","K","L","M",
           "N","O","P","Q","R","S","T","U","V","W","X","Y","Z", "_",
           "a","b","c","d","e","f","g","h","i","j","k","l","m",
           "n","o","p","q","r","s","t","u","v","w","x","y","z">>

\* Position of c in ASCII order (order-preserving image of ord(c)).
Ord(c) == CHOOSE i \in 1..Len(Ascii) : Ascii[i] = c

\* sqlite3UpperToLower: 'A'..'Z' map to 'a'..'z', all else unchanged.
Lower(c) == IF Ord(c) >= Ord("A") /\ Ord(c) <= Ord("Z")
            THEN Ascii[Ord(c) + (Ord("a") - Ord("A"))]
            ELSE c

\* BINARY collation: bytewise comparison, a proper prefix sorts first.
RECURSIVE NameLess(_, _)
NameLess(a, b) ==
    IF b = <<>> THEN FALSE
    ELSE IF a = <<>> THEN TRUE
    ELSE IF Ord(Head(a)) < Ord(Head(b)) THEN TRUE
    ELSE IF Ord(Head(a)) > Ord(Head(b)) THEN FALSE
    ELSE NameLess(Tail(a), Tail(b))

\* SQLite LIKE (patternCompare): '%' matches any run of characters, '_' any
\* one character, any other character matches itself up to ASCII case.
RECURSIVE Like(_, _)
Like(s, p) ==
    IF p = <<>> THEN s = <<>>
    ELSE IF Head(p) = "%"
         THEN \E k \in 0..Len(s) : Like(SubSeq(s, k + 1, Len(s)), Tail(p))
    ELSE IF s = <<>> THEN FALSE
    ELSE IF Head(p) = "_" THEN Like(Tail(s), Tail(p))
    ELSE Lower(Head(s)) = Lower(Head(p)) /\ Like(Tail(s), Tail(p))

AlanPattern == <<"%","A","l","a","n","%">>

\* ------------------------------------------------------------------------
\* The table: a set of rows, each with an integer primary key
\* ------------------------------------------------------------------------

\* Variant: every insert is given the key 1.
NextId_One(S) == 1

\* INTEGER PRIMARY KEY without AUTOINCREMENT: one more than the largest
\* rowid in the table, 1 for an empty table.
NextId(S) ==
    IF S = {} THEN 1
    ELSE (CHOOSE m \in {r.id : r \in S} : \A r \in S : r.id <= m) + 1

\* The row an INSERT writes for object o: a missing id is generated, a
\* missing enrolled_date takes the column default.
RowOfInsert(S, o) ==
    [id            |-> IF o.id = None THEN NextId(S) ELSE o.id[1],
     name          |-> o.name,
     email         |-> o.email,
     grade         |-> o.grade,
     birthday      |-> o.birthday,
     enrolled_date |-> IF o.enrolled_date = None THEN enrolled_default
                       ELSE o.enrolled_date[1]]

\* Variant: only the first object of the list is inserted.
BulkInsert_HeadOnly(S, objs) ==
    IF objs = <<>> THEN S ELSE S \cup {RowOfInsert(S, Head(objs))}

\* INSERT of a list of objects, in list order.
RECURSIVE BulkInsert(_, _)
BulkInsert(S, objs) ==
    IF objs = <<>> THEN S
    ELSE BulkInsert(S \cup {RowOfInsert(S, Head(objs))}, Tail(objs))

\* A persistent object as the ORM loads it from a row.
ObjOfRow(r) ==
    [id |-> Some(r.id), name |-> r.name, email |-> r.email, grade |-> r.grade,
     birthday |-> r.birthday, enrolled_date |-> Some(r.enrolled_date)]

\* SELECT without ORDER BY: a table scan, in rowid order.
RECURSIVE ScanRows(_)
ScanRows(S) ==
    IF S = {} THEN <<>>
    ELSE LET r == CHOOSE r \in S : \A q \in S : r.id <= q.id
         IN  <<r>> \o ScanRows(S \ {r})

\* Rows with equal sort keys come out in an order SQL leaves open; a given
\* SQLite build resolves it one way for the whole run.
TieBefore(a, b) == IF tie = "rowid_asc" THEN a.id < b.id ELSE a.id > b.id

\* ORDER BY students.name
RECURSIVE OrderByName(_)
OrderByName(S) ==
    IF S = {} THEN <<>>
    ELSE LET r == CHOOSE r \in S : \A q \in S \ {r} :
                      \/ NameLess(r.name, q.name)
                      \/ (r.name = q.name /\ TieBefore(r, q))
         IN  <<r>> \o OrderByName(S \ {r})

\* Variant: ORDER BY students.grade, ascending.
RECURSIVE OrderByGradeAsc(_)
OrderByGradeAsc(S) ==
    IF S = {} THEN <<>>
    ELSE LET r == CHOOSE r \in S : \A q \in S \ {r} :
                      \/ r.grade < q.grade
                      \/ (r.grade = q.grade /\ TieBefore(r, q))
         IN  <<r>> \o OrderByGradeAsc(S \ {r})

\* ORDER BY students.grade DESC
RECURSIVE OrderByGradeDesc(_)
OrderByGradeDesc(S) ==
    IF S = {} THEN <<>>
    ELSE LET r == CHOOSE r \in S : \A q \in S \ {r} :
                      \/ r.grade > q.grade
                      \/ (r.grade = q.grade /\ TieBefore(r, q))
         IN  <<r>> \o OrderByGradeDesc(S \ {r})

\* Query.limit(n)
Limit(rows, n) == SubSeq(rows, 1, IF Len(rows) < n THEN Len(rows) ELSE n)

\* Query.first(): LIMIT 1, then the row if there is one, else None.
First(rows) == IF Limit(rows, 1) = <<>> THEN None ELSE Some(Limit(rows, 1)[1])

\* Variant: the two clauses joined with OR.
FilterAlan_Or(S) == {r \in S : Like(r.name, AlanPattern) \/ r.grade = 11}

\* filter(Student.name.like('%Alan%'), Student.grade == 11): the clauses of
\* one filter() are joined with AND.
FilterAlan(S) == {r \in S : Like(r.name, AlanPattern) /\ r.grade = 11}

\* Variant: the criterion is lost and every row matches.
FilterEinstein_Any(S) == S

\* filter(Student.name == 'Albert Einstein')
FilterEinstein(S) == {r \in S : r.name = EinsteinName}

\* func.count(Student.id): the number of rows (the key is never NULL).
Count(S) == Cardinality({r.id : r \in S})

\* Variant: the UPDATE reaches only the row with the lowest key.
UpdateGrade_First(S) ==
    {IF \A q \in S : r.id <= q.id THEN [r EXCEPT !.grade = @ + 1] ELSE r :
        r \in S}

\* UPDATE students SET grade = grade + 1
UpdateGrade(S) == {[r EXCEPT !.grade = @ + 1] : r \in S}

\* ------------------------------------------------------------------------
\* The session: identity map, pending changes, flush and commit
\* ------------------------------------------------------------------------

\* Variant: the flush emits the UPDATEs but no DELETE.
FlushStore_NoDelete ==
    {IF r.id \in dirty THEN [r EXCEPT !.grade = loaded[r.id].grade] ELSE r :
        r \in store}

\* The table after a flush: one UPDATE per dirty object, one DELETE per
\* object marked for deletion.
FlushStore ==
    {IF r.id \in dirty THEN [r EXCEPT !.grade = loaded[r.id].grade] ELSE r :
        r \in {q \in store : q.id \notin deleted}}

FlushLoaded == [i \in DOMAIN loaded \ deleted |-> loaded[i]]

FlushPending == pending \/ dirty # {} \/ deleted # {}

\* Every query flushes the session first (autoflush).
AutoFlush ==
    /\ store' = FlushStore
    /\ pending' = FlushPending
    /\ dirty' = {}
    /\ deleted' = {}

\* Entities of a query enter the identity map; an object already there
\* keeps the attribute values it holds.
Load(L, S) ==
    [i \in DOMAIN L \cup {r.id : r \in S} |->
        IF i \in DOMAIN L THEN L[i] ELSE ObjOfRow(CHOOSE r \in S : r.id = i)]

\* The entity objects of a result, in result order.
Entities(L, rows) == [k \in 1..Len(rows) |-> L[rows[k].id]]

\* print(...)
Emit(line, v) == out' = Append(out, [line |-> line, val |-> v])

\* The printed list of a list of Student objects.
Reprs(objs) == [k \in 1..Len(objs) |-> Repr(objs[k])]

\* A step that runs one SELECT and prints its result.
ReadStep(from, to, line, v, L) ==
    /\ pc = from
    /\ pc' = to
    /\ AutoFlush
    /\ loaded' = L
    /\ Emit(line, v)
    /\ UNCHANGED <<committed, albert_einstein, alan_turing, iter,
                   enrolled_default, tie, inserted, usedIds>>

\* Variant: session.flush() in place of session.commit().
Commit_FlushOnly(from, to) ==
    /\ pc = from
    /\ pc' = to
    /\ store' = FlushStore
    /\ pending' = FlushPending
    /\ dirty' = {}
    /\ deleted' = {}
    /\ loaded' = FlushLoaded
    /\ UNCHANGED <<committed, albert_einstein, alan_turing, iter, out,
                   enrolled_default, tie, inserted, usedIds>>

\* session.commit(): flush, make the transaction's changes permanent, and
\* expire every object of the session (expire_on_commit).
Commit(from, to) ==
    /\ pc = from
    /\ pc' = to
    /\ store' = FlushStore
    /\ committed' = FlushStore
    /\ pending' = FALSE
    /\ dirty' = {}
    /\ deleted' = {}
    /\ loaded' = <<>>
    /\ UNCHANGED <<albert_einstein, alan_turing, iter, out, enrolled_default,
                   tie, inserted, usedIds>>

\* ------------------------------------------------------------------------
\* The script, one action per statement
\* ------------------------------------------------------------------------

\* Creating records

\* session.bulk_save_objects([albert_einstein, alan_turing]): the rows are
\* inserted in list order; without return_defaults the objects are neither
\* added to the session nor given the generated keys.
BulkSaveObjects ==
    /\ pc = "L63"
    /\ pc' = "L64"
    /\ store' = BulkInsert(FlushStore, <<albert_einstein[1], alan_turing>>)
    /\ pending' = TRUE
    /\ dirty' = {}
    /\ deleted' = {}
    /\ loaded' = FlushLoaded
    /\ inserted' = store' \ FlushStore
    /\ usedIds' = usedIds \cup {r.id : r \in store'}
    /\ UNCHANGED <<committed, albert_einstein, alan_turing, iter, out,
                   enrolled_default, tie>>

CommitInsert == Commit("L64", "L66")

\* print(f'New student ID is {albert_einstein.id}.')
PrintEinsteinId ==
    /\ pc = "L66"
    /\ pc' = "L67"
    /\ Emit(66, albert_einstein[1].id)
    /\ UNCHANGED <<store, committed, pending, loaded, dirty, deleted,
                   albert_einstein, alan_turing, iter, enrolled_default, tie,
                   inserted, usedIds>>

\* print(f'New student ID is {alan_turing.id}.')
PrintTuringId ==
    /\ pc = "L67"
    /\ pc' = "L73"
    /\ Emit(67, alan_turing.id)
    /\ UNCHANGED <<store, committed, pending, loaded, dirty, deleted,
                   albert_einstein, alan_turing, iter, enrolled_default, tie,
                   inserted, usedIds>>

\* Reading records

\* print([student for student in session.query(Student)])
ReadStudentsIter ==
    LET L == Load(FlushLoaded, FlushStore)
    IN  ReadStep("L73", "L76", 74,
                 Reprs(Entities(L, ScanRows(FlushStore))), L)

\* print(session.query(Student).all())
ReadStudentsAll ==
    LET L == Load(FlushLoaded, FlushStore)
    IN  ReadStep("L76", "L79", 77,
                 Reprs(Entities(L, ScanRows(FlushStore))), L)

\* The result rows of a query for the given columns.
NameCol(rows) == [k \in 1..Len(rows) |-> <<rows[k].name>>]

NameGradeCols(rows) == [k \in 1..Len(rows) |-> <<rows[k].name, rows[k].grade>>]

NameBirthdayCols(rows) ==
    [k \in 1..Len(rows) |-> <<rows[k].name, rows[k].birthday>>]

\* print(session.query(Student.name).all())
ReadNames ==
    ReadStep("L79", "L84", 80, NameCol(ScanRows(FlushStore)),
             FlushLoaded)

\* print(session.query(Student.name).order_by(Student.name).all())
ReadStudentsByName ==
    ReadStep("L84", "L90", 86, NameCol(OrderByName(FlushStore)),
             FlushLoaded)

\* print(session.query(Student.name, Student.grade)
\*           .order_by(desc(Student.grade)).all())
ReadStudentsByGradeDesc ==
    ReadStep("L90", "L99", 92,
             NameGradeCols(OrderByGradeDesc(FlushStore)), FlushLoaded)

\* print(session.query(Student.name, Student.birthday)
\*           .order_by(desc(Student.grade)).limit(1).all())
ReadOldestLimit ==
    ReadStep("L99", "L103", 101,
             Limit(NameBirthdayCols(OrderByGradeDesc(FlushStore)), 1),
             FlushLoaded)

\* print(session.query(Student.name, Student.birthday)
\*           .order_by(desc(Student.grade)).first())
ReadOldestFirst ==
    ReadStep("L103", "L111", 105,
             First(NameBirthdayCols(OrderByGradeDesc(FlushStore))),
             FlushLoaded)

\* print(session.query(func.count(Student.id)).first())
ReadStudentCount ==
    ReadStep("L111", "L119", 112, Some(<<Count(FlushStore)>>), FlushLoaded)

\* query = session.query(Student).filter(...).all()
\* for record in query: print(record.name)
ReadFiltered ==
    LET hits == ScanRows(FilterAlan(FlushStore))
        L    == Load(FlushLoaded, FilterAlan(FlushStore))
    IN  /\ pc = "L119"
        /\ pc' = "L128"
        /\ AutoFlush
        /\ loaded' = L
        /\ out' = out \o [k \in 1..Len(hits) |->
                            [line |-> 122, val |-> L[hits[k].id].name]]
        /\ UNCHANGED <<committed, albert_einstein, alan_turing, iter,
                       enrolled_default, tie, inserted, usedIds>>

\* Updating data

\* for student in session.query(Student): the query runs once and its
\* entities are loaded before the first pass of the loop body.
UpdateLoopQuery ==
    LET L    == Load(FlushLoaded, FlushStore)
        rows == ScanRows(FlushStore)
    IN  /\ pc = "L128"
        /\ pc' = IF rows = <<>> THEN "L131" ELSE "L129"
        /\ AutoFlush
        /\ loaded' = L
        /\ iter' = [k \in 1..Len(rows) |-> rows[k].id]
        /\ UNCHANGED <<committed, albert_einstein, alan_turing, out,
                       enrolled_default, tie, inserted, usedIds>>

\* student.grade += 1
IncrementGrade(L, i) == [L EXCEPT ![i].grade = @ + 1]

UpdateLoopBody ==
    /\ pc = "L129"
    /\ iter # <<>>
    /\ loaded' = IncrementGrade(loaded, Head(iter))
    /\ dirty' = dirty \cup {Head(iter)}
    /\ iter' = Tail(iter)
    /\ pc' = IF Tail(iter) = <<>> THEN "L131" ELSE "L129"
    /\ UNCHANGED <<store, committed, pending, deleted, albert_einstein,
                   alan_turing, out, enrolled_default, tie, inserted, usedIds>>

CommitUpdate == Commit("L131", "L132")

\* print([(student.name, student.grade) for student in session.query(Student)])
ReadAfterObjectUpdate ==
    LET L == Load(FlushLoaded, FlushStore)
    IN  ReadStep("L132", "L136", 132,
                 NameGradeCols(Entities(L, ScanRows(FlushStore))), L)

\* The objects of the session that an UPDATE of every row concerns get the
\* new value evaluated in memory (synchronize_session).
SyncUpdate(L) == [i \in DOMAIN L |-> [L[i] EXCEPT !.grade = @ + 1]]

\* session.query(Student).update({Student.grade: Student.grade + 1})
BulkUpdate ==
    /\ pc = "L136"
    /\ pc' = "L137"
    /\ store' = UpdateGrade(FlushStore)
    /\ pending' = TRUE
    /\ dirty' = {}
    /\ deleted' = {}
    /\ loaded' = SyncUpdate(FlushLoaded)
    /\ UNCHANGED <<committed, albert_einstein, alan_turing, iter, out,
                   enrolled_default, tie, inserted, usedIds>>

\* print([(student.name, student.grade) for student in session.query(Student)])
ReadAfterBulkUpdate ==
    LET L == Load(FlushLoaded, FlushStore)
    IN  ReadStep("L137", "L145", 137,
                 NameGradeCols(Entities(L, ScanRows(FlushStore))), L)

\* Deleting data

\* query.first() for query = session.query(Student).filter(
\*     Student.name == 'Albert Einstein'): the entity of the first matching
\* row, or None.
FirstEinsteinRows == Limit(ScanRows(FilterEinstein(FlushStore)), 1)

FirstEinsteinLoaded ==
    Load(FlushLoaded, {FirstEinsteinRows[k] : k \in 1..Len(FirstEinsteinRows)})

FirstEinstein == First(Entities(FirstEinsteinLoaded, FirstEinsteinRows))

\* albert_einstein = query.first()
LoadEinstein ==
    /\ pc = "L145"
    /\ pc' = "L147"
    /\ AutoFlush
    /\ loaded' = FirstEinsteinLoaded
    /\ albert_einstein' = FirstEinstein
    /\ UNCHANGED <<committed, alan_turing, iter, out, enrolled_default, tie,
                   inserted, usedIds>>

\* session.delete(albert_einstein): marks the object for deletion; given
\* None it raises UnmappedInstanceError and the script ends there.
SessionDelete ==
    /\ pc = "L147"
    /\ IF albert_einstein = None
       THEN /\ pc' = "error"
            /\ UNCHANGED deleted
       ELSE /\ pc' = "L148"
            /\ deleted' = deleted \cup {albert_einstein[1].id[1]}
    /\ UNCHANGED <<store, committed, pending, loaded, dirty, albert_einstein,
                   alan_turing, iter, out, enrolled_default, tie, inserted,
                   usedIds>>

CommitDelete == Commit("L148", "L150")

\* albert_einstein = query.first(); print(albert_einstein)
RequeryAfterDelete ==
    /\ pc = "L150"
    /\ pc' = "L157"
    /\ AutoFlush
    /\ loaded' = FirstEinsteinLoaded
    /\ albert_einstein' = FirstEinstein
    /\ Emit(151, IF FirstEinstein = None THEN None
                 ELSE Some(Repr(FirstEinstein[1])))
    /\ UNCHANGED <<committed, alan_turing, iter, enrolled_default, tie,
                   inserted, usedIds>>

\* The objects of the session that match the criterion of a DELETE leave
\* the session (synchronize_session).
SyncDelete(L) ==
    LET keep == {i \in DOMAIN L : L[i].name # EinsteinName}
    IN  [i \in keep |-> L[i]]

\* Variant: DELETE FROM students, without the WHERE clause.
QueryDelete_NoFilter ==
    /\ pc = "L157"
    /\ pc' = "L158"
    /\ store' = {}
    /\ pending' = TRUE
    /\ dirty' = {}
    /\ deleted' = {}
    /\ loaded' = <<>>
    /\ UNCHANGED <<committed, albert_einstein, alan_turing, iter, out,
                   enrolled_default, tie, inserted, usedIds>>

\* query.delete() for the same criterion: DELETE FROM students WHERE name = ?
QueryDelete ==
    /\ pc = "L157"
    /\ pc' = "L158"
    /\ store' = FlushStore \ FilterEinstein(FlushStore)
    /\ pending' = TRUE
    /\ dirty' = {}
    /\ deleted' = {}
    /\ loaded' = SyncDelete(FlushLoaded)
    /\ UNCHANGED <<committed, albert_einstein, alan_turing, iter, out,
                   enrolled_default, tie, inserted, usedIds>>

\* albert_einstein = query.first(); print(albert_einstein); the script ends.
RequeryAfterQueryDelete ==
    /\ pc = "L158"
    /\ pc' = "done"
    /\ AutoFlush
    /\ loaded' = FirstEinsteinLoaded
    /\ albert_einstein' = FirstEinstein
    /\ Emit(159, IF FirstEinstein = None THEN None
                 ELSE Some(Repr(FirstEinstein[1])))
    /\ UNCHANGED <<committed, alan_turing, iter, enrolled_default, tie,
                   inserted, usedIds>>

\* ------------------------------------------------------------------------
\* Specifications
\* ------------------------------------------------------------------------

Clock == 0..MaxNow

TieOrders == {"rowid_asc", "rowid_desc"}

\* The state once the engine, the empty table, the session and the two
\* Student objects exist.
InitWith(a, t) ==
    /\ pc = "L63"
    /\ store = {}
    /\ committed = {}
    /\ pending = FALSE
    /\ loaded = <<>>
    /\ dirty = {}
    /\ deleted = {}
    /\ albert_einstein = Some(a)
    /\ alan_turing = t
    /\ iter = <<>>
    /\ out = <<>>
    /\ enrolled_default \in Clock
    /\ tie \in TieOrders
    /\ inserted = {}
    /\ usedIds = {}

Init == InitWith(AlbertEinsteinObj, AlanTuringObj)

NamePool == {EinsteinName, TuringName}

GradePool == {EinsteinGrade, TuringGrade}

\* The same script applied to two students whose name and grade range over
\* the pools, to exercise the queries on tables other than the script's.
GenInit ==
    \E n1 \in NamePool, n2 \in NamePool, g1 \in GradePool, g2 \in GradePool :
        InitWith(NewStudent(n1, EinsteinEmail, g1, EinsteinBirthday),
                 NewStudent(n2, TuringEmail, g2, TuringBirthday))

Next ==
    \/ BulkSaveObjects
    \/ CommitInsert
    \/ PrintEinsteinId
    \/ PrintTuringId
    \/ ReadStudentsIter
    \/ ReadStudentsAll
    \/ ReadNames
    \/ ReadStudentsByName
    \/ ReadStudentsByGradeDesc
    \/ ReadOldestLimit
    \/ ReadOldestFirst
    \/ ReadStudentCount
    \/ ReadFiltered
    \/ UpdateLoopQuery
    \/ UpdateLoopBody
    \/ CommitUpdate
    \/ ReadAfterObjectUpdate
    \/ BulkUpdate
    \/ ReadAfterBulkUpdate
    \/ LoadEinstein
    \/ SessionDelete
    \/ CommitDelete
    \/ RequeryAfterDelete
    \/ QueryDelete
    \/ RequeryAfterQueryDelete

Spec == Init /\ [][Next]_vars

GenSpec == GenInit /\ [][Next]_vars

\* ------------------------------------------------------------------------
\* Properties
\* ------------------------------------------------------------------------

HasPrinted(line) == \E k \in 1..Len(out) : out[k].line = line

\* The value printed by the statement at the given line (printed once).
ValOf(line) == out[CHOOSE k \in 1..Len(out) : out[k].line = line].val

\* Everything printed by the statement at the given line, in order.
ValsOf(line) ==
    LET AtLine(e) == e.line = line
        sel == SelectSeq(out, AtLine)
    IN  [k \in 1..Len(sel) |-> sel[k].val]

\* The two students are the ones the script constructs.
InputIsScript ==
    {<<r.email, r.name, r.grade>> : r \in inserted} =
        {<<EinsteinEmail, EinsteinName, 6>>, <<TuringEmail, TuringName, 11>>}

\* The session holds a change that no commit has made permanent.
Uncommitted == pending \/ dirty # {} \/ deleted # {}

\* C1: once bulk_save_objects and the commit have returned, the two objects
\* handed to bulk_save_objects carry generated ids: both non-null, distinct,
\* and Albert Einstein's lower than Alan Turing's.
C1_ObjectsCarryIds ==
    pc \in {"L66", "L67", "L73"} =>
        /\ albert_einstein[1].id # None
        /\ alan_turing.id # None
        /\ albert_einstein[1].id # alan_turing.id
        /\ albert_einstein[1].id[1] < alan_turing.id[1]

\* Where a read step or a mutating step of the script starts, and its end.
StepStarts ==
    {"L63", "L66", "L67", "L73", "L76", "L79", "L84", "L90", "L99", "L103",
     "L111", "L119", "L128", "L132", "L136", "L137", "L145", "L150", "L157",
     "L158", "done"}

\* C2 (as stated): no read step, no mutating step and not the end of the
\* script is reached while an earlier mutation is still uncommitted.
C2_EveryMutationCommitted == pc \in StepStarts => ~Uncommitted

\* C2 (amended): the bulk insert, the per-object update and the delete by
\* object are each committed before the next step starts; the bulk-expression
\* update is still uncommitted during the read that follows it and when the
\* delete-by-object step starts, and the delete by expression is still
\* uncommitted when the script ends.
C2_CommitPoints ==
    /\ pc \in StepStarts \ {"L137", "L145", "L158", "done"} =>
           ~Uncommitted /\ store = committed
    /\ pc \in {"L137", "L145"} =>
           /\ pending
           /\ store # committed
           /\ \A r \in store : \E q \in committed :
                  q.id = r.id /\ r.grade = q.grade + 1
    /\ pc \in {"L158", "done"} => pending

C2_Witness == pc = "L137" /\ pending /\ store # committed

\* C3: the per-object update raises every row's grade by exactly 1 and the
\* bulk-expression update raises it by exactly 1 again: every row ends at its
\* inserted grade plus 2 (Einstein 8, Turing 13), none skipped, none twice.
C3_GradesPlusTwo ==
    /\ pc \in {"L132", "L136"} =>
           /\ {r.id : r \in store} = {q.id : q \in inserted}
           /\ \A r \in store : \E q \in inserted :
                  q.id = r.id /\ r.grade = q.grade + 1
    /\ pc \in {"L137", "L145", "L147"} =>
           /\ {r.id : r \in store} = {q.id : q \in inserted}
           /\ \A r \in store : \E q \in inserted :
                  q.id = r.id /\ r.grade = q.grade + 2
           /\ InputIsScript =>
                  /\ {r \in store : r.grade = 6} = {}
                  /\ {<<r.name, r.grade>> : r \in store} =
                         {<<EinsteinName, 8>>, <<TuringName, 13>>}

C3_Witness ==
    /\ pc = "L137"
    /\ InputIsScript
    /\ \E r \in store : r.name = TuringName /\ r.grade = 13

\* C4: after the first row named 'Albert Einstein' is loaded, deleted through
\* the session and the deletion committed, the same query's first() returns
\* None and no row of that name remains.
C4_DeletedByObject ==
    /\ pc = "L150" => FilterEinstein(store) = {}
    /\ pc = "L157" =>
           /\ albert_einstein = None
           /\ ValOf(151) = None
           /\ \A r \in store \cup committed : r.name # EinsteinName

C4_Witness ==
    /\ pc = "L157"
    /\ albert_einstein = None
    /\ \E q \in inserted : q.name = EinsteinName /\ q.id \notin {r.id : r \in store}

\* C5: the delete by expression, issued when the row is already gone, is not
\* an error, removes nothing and leaves the table as it was; the query's
\* first() afterwards again returns None.
C5_DeleteIdempotent ==
    /\ pc # "error"
    /\ pc \in {"L158", "done"} =>
           /\ store = committed
           /\ \A r \in store : r.name # EinsteinName
    /\ pc = "done" => albert_einstein = None /\ ValOf(159) = None

C5_Witness ==
    /\ pc = "done"
    /\ ValOf(159) = None
    /\ store = committed
    /\ store # {}

\* C6: for (name, birthday) ordered by grade descending, limit(1).all() and
\* first() give the identical row, the row of a student of maximal grade
\* (Alan Turing for the script's students), and on a non-empty table neither
\* is empty.
C6_OldestStudent ==
    pc \in {"L111", "L119", "L128", "L129", "L131"} =>
        LET lim == ValOf(101)
            fst == ValOf(105)
        IN  /\ Len(lim) <= 1
            /\ lim = (IF fst = None THEN <<>> ELSE <<fst[1]>>)
            /\ store # {} =>
                   /\ Len(lim) = 1
                   /\ fst # None
                   /\ \E r \in store :
                          /\ lim[1] = <<r.name, r.birthday>>
                          /\ \A q \in store : q.grade <= r.grade
            /\ InputIsScript => fst = Some(<<TuringName, TuringBirthday>>)

C6_Witness ==
    /\ pc = "L111"
    /\ InputIsScript
    /\ ValOf(101) = <<(<<TuringName, TuringBirthday>>)>>
    /\ ValOf(105) = Some(<<TuringName, TuringBirthday>>)

\* The name has 'Alan' in it, letter for letter.
ContainsAlan(n) ==
    \E i \in 1..Len(n) : i + 3 <= Len(n) /\ SubSeq(n, i, i + 3) = <<"A","l","a","n">>

\* C7: the filtered read returns exactly the rows whose name contains 'Alan'
\* and whose grade is 11, and none that meets only one of the two; for the
\* script's students, run before any update, that is the one row Alan Turing.
C7_FilterAnd ==
    pc \in {"L128", "L129", "L131"} =>
        LET hits == ScanRows({r \in store : ContainsAlan(r.name) /\ r.grade = 11})
        IN  /\ ValsOf(122) = [k \in 1..Len(hits) |-> hits[k].name]
            /\ InputIsScript => ValsOf(122) = <<TuringName>>

C7_Witness ==
    /\ pc = "L128"
    /\ Len(ValsOf(122)) = 1
    /\ \E r \in store : ContainsAlan(r.name) # (r.grade = 11)

\* C8: from the commit of the bulk insert until the first delete step the
\* table holds 2 rows, and the count aggregate prints 2; the reads, the
\* aggregate, the filter and both updates add and remove no row.
C8_CountIsTwo ==
    /\ pc \in {"L66", "L67", "L73", "L76", "L79", "L84", "L90", "L99", "L103",
               "L111", "L119", "L128", "L129", "L131", "L132", "L136", "L137",
               "L145"} =>
           /\ Cardinality(store) = 2
           /\ Cardinality({r.id : r \in store}) = 2
           /\ Cardinality(committed) = 2
    /\ HasPrinted(112) => ValOf(112) = Some(<<2>>)

C8_Witness == pc = "L145" /\ HasPrinted(112) /\ Cardinality(store) = 2

\* C9: every stored row carries the id it was given at its insertion: no
\* update alters an id, no two rows share an id, and the id of a deleted row
\* is not given to a remaining row.
C9_IdsStable ==
    /\ \A r \in store, q \in store : r.id = q.id => r = q
    /\ \A r \in store : \E q \in inserted :
           /\ q.id = r.id
           /\ q.email = r.email
           /\ q.name = r.name
           /\ q.birthday = r.birthday
    /\ \A q \in inserted, p \in inserted : q.id = p.id => q = p
    /\ {q.id : q \in inserted} = usedIds

C9_Witness ==
    /\ pc = "done"
    /\ \E i \in usedIds : i \notin {r.id : r \in store}
    /\ \E r \in store : \E q \in inserted : q.id = r.id /\ q.grade # r.grade

TuringFinalRow ==
    [id |-> 2, name |-> TuringName, email |-> TuringEmail, grade |-> 13,
     birthday |-> TuringBirthday, enrolled_date |-> enrolled_default]

\* C10: the two delete steps remove only rows named 'Albert Einstein' and
\* leave every other row as it was; at the end the table holds exactly one
\* row, Alan Turing, with its inserted id, email and birthday and grade 13.
C10_OnlyEinsteinDeleted ==
    /\ pc \in {"L150", "L157", "L158", "done"} =>
           store = {[q EXCEPT !.grade = @ + 2] :
                       q \in {p \in inserted : p.name # EinsteinName}}
    /\ pc = "done" => store = {TuringFinalRow}

C10_Witness ==
    /\ pc = "done"
    /\ Cardinality(store) = 1
    /\ Cardinality(inserted) = 2

====
